---- MODULE Spec2Model ----
(***************************************************************************)
(* Model of backend/data_generator.py: the synthetic transaction           *)
(* generator (generate_transaction, generate_transactions) and the         *)
(* rule-based scorer (generate_ai_analysis); and of the request handlers   *)
(* of backend/main.py over the in-memory transaction and analysis stores.  *)
(*                                                                         *)
(* Money is counted in cents (amounts are rounded to 2 decimals).  Texts   *)
(* that are compared by the program (timestamps) are sequences of          *)
(* character codes; texts that are only emitted are kept as strings.       *)
(* Every random draw of the code is an explicit field of a draw record,    *)
(* so each function is computed exactly as the code computes it once the   *)
(* outcome of its draws is fixed.                                          *)
(***************************************************************************)
EXTENDS Integers, Sequences, FiniteSets, TLC

VARIABLES call, outcome, transaction, transactions, analysis, rnd,
          base_score, transaction_store, analysis_store, response

\* the pending call of a library function, its draws and what it returns
libVars == <<call, outcome, transaction, transactions, analysis, rnd, base_score>>

\* the in-memory stores of main.py and the response to the last request
apiVars == <<transaction_store, analysis_store, response>>

vars == <<call, outcome, transaction, transactions, analysis, rnd,
          base_score, transaction_store, analysis_store, response>>

(***************************************************************************)
(* Program constants (data_generator.py:12-56)                             *)
(***************************************************************************)
TRANSACTION_TYPES == <<"transfer", "deposit", "withdrawal", "payment">>

RISK_INDICATORS == <<"Normal", "High">>

LOW_RISK_COUNTRIES ==
    <<"USA", "Canada", "United Kingdom", "Germany", "France", "Japan",
      "Australia", "New Zealand", "Sweden", "Norway", "Denmark", "Finland">>

MEDIUM_RISK_COUNTRIES ==
    <<"Mexico", "Brazil", "India", "China", "South Africa", "Turkey",
      "Saudi Arabia", "UAE", "Thailand", "Malaysia">>

HIGH_RISK_COUNTRIES ==
    <<"Russia", "Belarus", "North Korea", "Iran", "Afghanistan", "Syria",
      "Venezuela", "Cayman Islands", "Panama", "Cyprus">>

DEFAULT_CURRENCY == "SGD"

STATUS_OPTIONS == <<"flagged", "reviewed", "dismissed">>

RISK_PROFILES == <<"Low", "Medium", "High">>

Range(s) == {s[i] : i \in 1..Len(s)}

(***************************************************************************)
(* Bounds of the model                                                     *)
(***************************************************************************)
\* random.uniform(a, b) = a + (b-a) * random(): random() is k/UniformSteps
UniformSteps == 2
\* largest count passed to generate_transactions
MaxCount == 3

\* Python's None for an optional argument
None == "None"

\* `not x` for an optional string argument: None and "" are both falsy
Falsy(x) == x = None \/ x = ""

\* int(n/d): Python's int() truncates toward zero
Trunc(n, d) == IF n >= 0 THEN n \div d ELSE -((-n) \div d)

\* round(n/d) to the nearest integer (d > 0, n >= 0)
RoundDiv(n, d) == (2 * n + d) \div (2 * d)

(***************************************************************************)
(* Time: an instant is [day, sod, us]: days since 1970-01-01, second of    *)
(* the day, microsecond.                                                    *)
(***************************************************************************)
\* datetime - timedelta(days, hours, minutes, seconds)
MinusDelta(t, days, hours, minutes, seconds) ==
    LET secs == t.sod - (hours * 3600 + minutes * 60 + seconds)
    IN  [day |-> t.day - days + (secs \div 86400),
         sod |-> secs % 86400,
         us  |-> t.us]

\* a - b in microseconds is >= 0
NotBefore(a, b) ==
    \/ a.day > b.day
    \/ a.day = b.day /\ a.sod > b.sod
    \/ a.day = b.day /\ a.sod = b.sod /\ a.us >= b.us

\* the proleptic Gregorian date <<year, month, day>> of a day number
CivilFromDays(days) ==
    LET z   == days + 719468
        era == z \div 146097
        doe == z - era * 146097
        yoe == (doe - (doe \div 1460) + (doe \div 36524) - (doe \div 146096)) \div 365
        doy == doe - (365 * yoe + (yoe \div 4) - (yoe \div 100))
        mp  == (5 * doy + 2) \div 153
        d   == doy - ((153 * mp + 2) \div 5) + 1
        m   == IF mp < 10 THEN mp + 3 ELSE mp - 9
        y   == yoe + era * 400 + (IF m <= 2 THEN 1 ELSE 0)
    IN  <<y, m, d>>

\* the code point of a character of a timestamp
Ord(c) ==
    CASE c = "." -> 46
      [] c = "-" -> 45
      [] c = "0" -> 48
      [] c = ":" -> 58
      [] c = "T" -> 84
      [] c = "Z" -> 90

RECURSIVE Digits(_, _)
\* n as w zero-padded decimal digits
Digits(n, w) ==
    IF w = 0 THEN <<>> ELSE Append(Digits(n \div 10, w - 1), Ord("0") + (n % 10))

\* datetime.isoformat(): the fraction is omitted when microsecond is 0
isoformat(t) ==
    LET ymd == CivilFromDays(t.day)
        hh  == t.sod \div 3600
        mm  == (t.sod % 3600) \div 60
        ss  == t.sod % 60
    IN  Digits(ymd[1], 4) \o <<Ord("-")>> \o Digits(ymd[2], 2) \o <<Ord("-")>>
          \o Digits(ymd[3], 2) \o <<Ord("T")>> \o Digits(hh, 2) \o <<Ord(":")>>
          \o Digits(mm, 2) \o <<Ord(":")>> \o Digits(ss, 2)
          \o (IF t.us = 0 THEN <<>> ELSE <<Ord(".")>> \o Digits(t.us, 6))

RECURSIVE StrLess(_, _)
\* a < b for Python strings: lexicographic by code point
StrLess(a, b) ==
    IF b = <<>> THEN FALSE
    ELSE IF a = <<>> THEN TRUE
    ELSE IF Head(a) # Head(b) THEN Head(a) < Head(b)
    ELSE StrLess(Tail(a), Tail(b))

(***************************************************************************)
(* generate_transaction                                                    *)
(***************************************************************************)
\* the normal payments reach 6,000, above the scorer's threshold for payments
AmountRangeDrifted(transaction_type, risk_level) ==
    IF transaction_type = "transfer"
    THEN (IF risk_level = "High" THEN <<50000, 2000000>> ELSE <<500, 50000>>)
    ELSE IF transaction_type = "deposit"
    THEN (IF risk_level = "High" THEN <<25000, 800000>> ELSE <<200, 25000>>)
    ELSE IF transaction_type = "withdrawal"
    THEN (IF risk_level = "High" THEN <<15000, 200000>> ELSE <<100, 15000>>)
    ELSE (IF risk_level = "High" THEN <<5000, 150000>> ELSE <<50, 6000>>)

\* the (low, high) bounds of random.uniform, in SGD, as the if/elif chain
\* of the code selects them: every type but transfer, deposit, withdrawal
\* takes the payment branch, every risk level but High the second range
AmountRange(transaction_type, risk_level) ==
    IF transaction_type = "transfer"
    THEN (IF risk_level = "High" THEN <<50000, 2000000>> ELSE <<500, 50000>>)
    ELSE IF transaction_type = "deposit"
    THEN (IF risk_level = "High" THEN <<25000, 800000>> ELSE <<200, 25000>>)
    ELSE IF transaction_type = "withdrawal"
    THEN (IF risk_level = "High" THEN <<15000, 200000>> ELSE <<100, 15000>>)
    ELSE (IF risk_level = "High" THEN <<5000, 150000>> ELSE <<50, 5000>>)

\* the span added to lo is taken as hi + lo
UniformAmountWrongSpan(lo, hi, k) ==
    100 * lo + RoundDiv(100 * (hi + lo) * k, UniformSteps)

\* round(random.uniform(lo, hi), 2) in cents, random() = k / UniformSteps
UniformAmount(lo, hi, k) ==
    100 * lo + RoundDiv(100 * (hi - lo) * k, UniformSteps)

\* the tier lists random.choices picks from, by risk level
CountryLists(risk_level) ==
    IF risk_level = "High"
    THEN <<HIGH_RISK_COUNTRIES, MEDIUM_RISK_COUNTRIES, LOW_RISK_COUNTRIES>>
    ELSE <<LOW_RISK_COUNTRIES, MEDIUM_RISK_COUNTRIES, HIGH_RISK_COUNTRIES>>

\* str(uuid.uuid4())[:8].upper() for the sampled uuids
Upper(u) ==
    CASE u = "1f0e3dad" -> "1F0E3DAD"
      [] u = "9b2c44e0" -> "9B2C44E0"
      [] OTHER -> u

\* the coin of transfers is ignored
MerchantConditionNoCoin(transaction_type, coin) ==
    transaction_type = "payment" \/ transaction_type = "transfer"

\* merchant info is attached for payments and for transfers whose coin
\* random.random() < 0.3 succeeded
MerchantCondition(transaction_type, coin) ==
    transaction_type = "payment" \/ (transaction_type = "transfer" /\ coin)

\* The transaction generate_transaction(country, risk_level, transaction_type)
\* returns when the clock reads `now` and the draws come out as d.
generate_transaction(country, risk_level, transaction_type, now, d) ==
    LET risk    == IF Falsy(risk_level) THEN d.risk ELSE risk_level
        ctry    == IF Falsy(country)
                   THEN CountryLists(risk)[d.tier][d.cidx]
                   ELSE country
        type    == IF Falsy(transaction_type) THEN d.type ELSE transaction_type
        range   == AmountRange(type, risk)
        amount  == UniformAmount(range[1], range[2], d.u)
        time    == MinusDelta(now, d.days, d.hours, d.minutes, d.seconds)
        merchant == MerchantCondition(type, d.coin)
    IN  [id              |-> "TXN-" \o Upper(d.uuid),
         amount          |-> amount,
         currency        |-> DEFAULT_CURRENCY,
         country         |-> ctry,
         transactionType |-> type,
         riskIndicator   |-> risk,
         time            |-> time,
         timestamp       |-> isoformat(time) \o <<Ord("Z")>>,
         status          |-> d.status,
         riskProfile     |-> d.profile,
         merchantInfo    |-> merchant]

\* list.sort(key=lambda x: x["timestamp"], reverse=True): stable, by the
\* timestamp string: x goes after every element whose key is not smaller
RECURSIVE InsertDesc(_, _)
InsertDesc(sorted, x) ==
    IF sorted = <<>> THEN <<x>>
    ELSE IF StrLess(Head(sorted).timestamp, x.timestamp)
         THEN <<x>> \o sorted
         ELSE <<Head(sorted)>> \o InsertDesc(Tail(sorted), x)

RECURSIVE SortByTimestampDesc(_)
SortByTimestampDesc(list) ==
    IF list = <<>> THEN <<>>
    ELSE InsertDesc(SortByTimestampDesc(SubSeq(list, 1, Len(list) - 1)),
                    list[Len(list)])

\* int(count * high_risk_percentage); the percentage is the fraction
\* pct[1] / pct[2]
HighRiskCount(count, pct) == Trunc(count * pct[1], pct[2])

\* len(range(n))
RangeLen(n) == IF n > 0 THEN n ELSE 0

\* generate_transactions(count, high_risk_percentage): s[i] is the clock
\* reading and the draws of the i-th call of generate_transaction
generate_transactions(count, pct, s) ==
    LET high_risk_count == HighRiskCount(count, pct)
        normal_count    == count - high_risk_count
        nh              == RangeLen(high_risk_count)
        nn              == RangeLen(normal_count)
        appended  == [i \in 1..(nh + nn) |->
                        generate_transaction(None,
                            IF i <= nh THEN "High" ELSE "Normal",
                            None, s[i].now, s[i].d)]
    IN  SortByTimestampDesc(appended)

\* the number of generate_transaction calls generate_transactions makes
NumCalls(count, pct) ==
    RangeLen(HighRiskCount(count, pct))
      + RangeLen(count - HighRiskCount(count, pct))

(***************************************************************************)
(* The calls and the draws the model enumerates                            *)
(***************************************************************************)
\* readings of datetime.now(): one second of 2025-03-01, at a whole second
\* and inside it
ClockReadings ==
    {[day |-> 20148, sod |-> 43200, us |-> u] : u \in {0, 500000}}

\* outcomes of the four random.randint draws of the timedelta: the least
\* and the greatest
DeltaDraws == {<<0, 0, 0, 0>>, <<30, 23, 59, 59>>}

\* outcomes of uuid.uuid4() (first 8 characters) and of the status and the
\* risk profile draws
OtherDraws ==
    {[uuid |-> "1f0e3dad", status |-> "flagged", profile |-> "Low"],
     [uuid |-> "9b2c44e0", status |-> "reviewed", profile |-> "Medium"],
     [uuid |-> "9b2c44e0", status |-> "dismissed", profile |-> "High"]}

\* a draw the call does not make
NotDrawn == "-"

\* The outcomes of the draws of one generate_transaction call: a draw the
\* code does not make (the argument was given, the `or` short-circuits) is
\* NotDrawn.
DrawSpace(country, risk_level, transaction_type) ==
    {[risk |-> r, tier |-> t, cidx |-> c, type |-> ty, u |-> u,
      uuid |-> o.uuid, days |-> dl[1], hours |-> dl[2], minutes |-> dl[3],
      seconds |-> dl[4], status |-> o.status, profile |-> o.profile,
      coin |-> coin /\ (IF Falsy(transaction_type) THEN ty ELSE transaction_type)
                           = "transfer"] :
        r    \in IF Falsy(risk_level) THEN Range(RISK_INDICATORS) ELSE {NotDrawn},
        t    \in IF Falsy(country) THEN 1..3 ELSE {1},
        c    \in IF Falsy(country) THEN {1, 10} ELSE {1},
        ty   \in IF Falsy(transaction_type) THEN Range(TRANSACTION_TYPES)
                                            ELSE {NotDrawn},
        u    \in 0..UniformSteps,
        dl   \in DeltaDraws,
        o    \in OtherDraws,
        coin \in BOOLEAN}

\* the draws sampled for the calls made inside a batch
BatchDraws ==
    {d \in DrawSpace(None, "High", None) :
        \/ d.days = 0 /\ d.tier = 1 /\ d.cidx = 1 /\ d.type = "transfer"
           /\ d.u = 0 /\ d.uuid = "1f0e3dad" /\ d.coin
        \/ d.days = 30 /\ d.tier = 3 /\ d.cidx = 10 /\ d.type = "payment"
           /\ d.u = UniformSteps /\ d.status = "dismissed"}

\* explicit arguments: absent, valid, and outside the documented values
CountryArgs == {None, "USA", "North Korea", "Atlantis"}
RiskLevelArgs == {None, "Normal", "High", "Critical"}
TypeArgs == {None, "wire"} \cup Range(TRANSACTION_TYPES)

\* high_risk_percentage as a fraction <<numerator, denominator>>
PercentageArgs == {<<-1, 2>>, <<0, 1>>, <<3, 10>>, <<2, 5>>, <<1, 1>>, <<3, 2>>}
CountArgs == (-2)..MaxCount

NoTime == [day |-> 0, sod |-> 0, us |-> 0]

NoTransaction ==
    [id |-> "", amount |-> 0, currency |-> "", country |-> "",
     transactionType |-> "", riskIndicator |-> "", time |-> NoTime,
     timestamp |-> <<>>, status |-> "", riskProfile |-> "", merchantInfo |-> FALSE]

NoDraws ==
    [risk |-> NotDrawn, tier |-> 1, cidx |-> 1, type |-> NotDrawn, u |-> 0,
     uuid |-> "", days |-> 0, hours |-> 0, minutes |-> 0, seconds |-> 0,
     status |-> "", profile |-> "", coin |-> FALSE]

NoAnalysis ==
    [transactionId |-> "", riskScore |-> 0, riskAssessment |-> <<>>,
     recommendedAction |-> "", confidence |-> 0, factors |-> <<>>,
     reasoning |-> <<>>]

\* transaction_store = {} and analysis_store = {}
EmptyStore == [k \in {} |-> NoTransaction]

\* no request has been answered; `generated` is the list
\* get_flagged_transactions generated before it applied the filters (it is
\* not part of the body sent)
NoResponse ==
    [handler |-> "", status_code |-> 0, count |-> 0, include_analysis |-> FALSE,
     transaction_id |-> "", new_status |-> "", generated |-> <<>>,
     transactions |-> <<>>,
     transaction |-> NoTransaction, analysis |-> NoAnalysis, analyses |-> <<>>,
     cleared |-> [transactions |-> 0, analyses |-> 0]]

SingleCalls ==
    [op : {"generate_transaction"}, country : CountryArgs,
     risk_level : RiskLevelArgs, transaction_type : TypeArgs,
     count : {0}, pct : {<<0, 1>>}, now : ClockReadings]

BatchCalls ==
    [op : {"generate_transactions"}, country : {None}, risk_level : {None},
     transaction_type : {None}, count : CountArgs, pct : PercentageArgs,
     now : {NoTime}]

(***************************************************************************)
(* Specification of the generator: a call is pending, then returns         *)
(***************************************************************************)
Init ==
    /\ call \in SingleCalls \cup BatchCalls
    /\ outcome = "pending"
    /\ transaction = NoTransaction
    /\ transactions = <<>>
    /\ analysis = NoAnalysis
    /\ rnd = NoDraws
    /\ base_score = 0
    /\ transaction_store = EmptyStore
    /\ analysis_store = EmptyStore
    /\ response = NoResponse

\* generate_transaction(country, risk_level, transaction_type) returns
GenerateTransaction ==
    /\ call.op = "generate_transaction"
    /\ outcome = "pending"
    /\ \E d \in DrawSpace(call.country, call.risk_level, call.transaction_type) :
         /\ transaction' = generate_transaction(call.country, call.risk_level,
                                                call.transaction_type, call.now, d)
         /\ rnd' = d
    /\ outcome' = "returned"
    /\ UNCHANGED <<call, transactions, analysis, base_score>>
    /\ UNCHANGED apiVars

\* the clock does not run backwards between the calls of a batch
Monotone(s) == \A i \in 1..(Len(s) - 1) : NotBefore(s[i + 1].now, s[i].now)

\* generate_transactions(count, high_risk_percentage) returns
GenerateTransactions ==
    /\ call.op = "generate_transactions"
    /\ outcome = "pending"
    /\ \E s \in [1..NumCalls(call.count, call.pct) -> [now : ClockReadings, d : BatchDraws]] :
         /\ Monotone(s)
         /\ transactions' = generate_transactions(call.count, call.pct, s)
    /\ outcome' = "returned"
    /\ UNCHANGED <<call, transaction, analysis, rnd, base_score>>
    /\ UNCHANGED apiVars

Next == GenerateTransaction \/ GenerateTransactions

Spec == Init /\ [][Next]_vars

(***************************************************************************)
(* generate_ai_analysis                                                    *)
(***************************************************************************)
\* amount_thresholds, in SGD; a type outside the table raises KeyError
amount_thresholds ==
    [t \in Range(TRANSACTION_TYPES) |->
        CASE t = "transfer"   -> 50000
          [] t = "deposit"    -> 25000
          [] t = "withdrawal" -> 15000
          [] t = "payment"    -> 5000]

\* transaction.get("customerInfo", {}).get("riskProfile", "Medium")
CustomerProfile(tx) == IF tx.riskProfile = None THEN "Medium" ELSE tx.riskProfile

\* "very large" / "large" / "standard": amount against 5*T and T (amount in cents)
AmountClass(tx) ==
    IF tx.amount > amount_thresholds[tx.transactionType] * 5 * 100 THEN "Very large"
    ELSE IF tx.amount > amount_thresholds[tx.transactionType] * 100 THEN "Large"
    ELSE "Standard"

\* "High" / "Medium" / "Low": the tier list the country is in
CountryTier(country) ==
    IF country \in Range(HIGH_RISK_COUNTRIES) THEN "High"
    ELSE IF country \in Range(MEDIUM_RISK_COUNTRIES) THEN "Medium"
    ELSE "Low"

\* the two ranges of the risk indicator are exchanged
RiskIndicatorDrawsSwapped(tx) == IF tx.riskIndicator = "High" THEN (-20)..5 ELSE 20..35

\* the values random.randint can return for each contribution of the score
RiskIndicatorDraws(tx) == IF tx.riskIndicator = "High" THEN 20..35 ELSE (-20)..5

\* the draw of a low-risk country reaches down to -20
CountryDrawsWide(tx) ==
    CASE CountryTier(tx.country) = "High"   -> 10..20
      [] CountryTier(tx.country) = "Medium" -> 5..10
      [] OTHER                              -> (-20)..5

CountryDraws(tx) ==
    CASE CountryTier(tx.country) = "High"   -> 10..20
      [] CountryTier(tx.country) = "Medium" -> 5..10
      [] OTHER                              -> (-10)..5

AmountDraws(tx) ==
    CASE AmountClass(tx) = "Very large" -> 15..25
      [] AmountClass(tx) = "Large"      -> 5..15
      [] OTHER                          -> {0}

\* the draw of a low-risk profile reaches down to -20
ProfileDrawsWide(tx) ==
    CASE CustomerProfile(tx) = "High" -> 5..15
      [] CustomerProfile(tx) = "Low"  -> {-x : x \in 5..20}
      [] OTHER                        -> {0}

ProfileDraws(tx) ==
    CASE CustomerProfile(tx) = "High" -> 5..15
      [] CustomerProfile(tx) = "Low"  -> {-x : x \in 5..15}
      [] OTHER                        -> {0}

\* base_score after the four contributions
BaseScore(d) == 50 + d.risk + d.country + d.amount + d.profile

\* the cap at 95 is missing
ClampLowerOnly(sum) == IF sum > 5 THEN sum ELSE 5

\* risk_score = max(5, min(95, base_score))
Clamp(sum) ==
    LET capped == IF sum < 95 THEN sum ELSE 95
    IN  IF capped > 5 THEN capped ELSE 5

\* the Escalate band starts above 60
RecommendedActionStrict(risk_score) ==
    IF risk_score > 60 THEN "Escalate"
    ELSE IF risk_score >= 20 THEN "Monitor"
    ELSE "Dismiss"

\* recommended_action of the if/elif chain on risk_score
RecommendedAction(risk_score) ==
    IF risk_score >= 80 THEN "Escalate"
    ELSE IF risk_score >= 60 THEN "Escalate"
    ELSE IF risk_score >= 40 THEN "Monitor"
    ELSE IF risk_score >= 20 THEN "Monitor"
    ELSE "Dismiss"

\* risk_assessment of the if/elif chain: the f-string as its fragments
RiskAssessment(tx, risk_score) ==
    IF risk_score >= 80
    THEN <<"Very high risk - ", tx.transactionType, " in ", tx.country>>
           \o (IF tx.riskIndicator = "High" THEN <<" from high-risk entity">> ELSE <<>>)
    ELSE IF risk_score >= 60 THEN <<"High risk ", tx.transactionType>>
    ELSE IF risk_score >= 40
    THEN <<"Medium risk ", tx.transactionType, " requiring review">>
    ELSE IF risk_score >= 20 THEN <<"Low risk transaction within normal parameters">>
    ELSE <<"Very low risk ", tx.transactionType>>

SuspiciousPatterns ==
    <<"Transaction outside normal pattern", "Unusual timing or frequency",
      "Suspicious transaction structure", "Potential structuring behavior">>

NormalPatterns ==
    <<"Transaction matches customer pattern", "Normal transaction frequency",
      "Expected transaction behavior">>

AmlPhrases ==
    <<"Multiple money laundering indicators", "Potential sanctions evasion pattern",
      "Transaction layering indicators", "Placement phase red flags">>

\* the suspicious phrases start above 70, with the AML factor
PatternPhrasesAbove70(risk_score) ==
    IF risk_score > 70 THEN SuspiciousPatterns ELSE NormalPatterns

\* the list random.choice draws the pattern factor from
PatternPhrases(risk_score) ==
    IF risk_score > 60 THEN SuspiciousPatterns ELSE NormalPatterns

\* the pattern factor is appended before the amount factor
FactorsPatternFirst(tx, risk_score, d) ==
    <<[kind |-> "pattern", text |-> PatternPhrases(risk_score)[d.pattern]],
      [kind |-> "amount", text |-> AmountClass(tx)]>>

\* the factors list, in the order of its appends; a factor is its kind and
\* its text without the interpolated amount, country and merchant name
Factors(tx, risk_score, d) ==
    <<[kind |-> "amount", text |-> AmountClass(tx)]>>
    \o (IF CountryTier(tx.country) = "High"
        THEN <<[kind |-> "country", text |-> "High-risk jurisdiction"]>>
        ELSE IF CountryTier(tx.country) = "Medium"
        THEN <<[kind |-> "country", text |-> "Medium-risk jurisdiction"]>>
        ELSE <<>>)
    \o (IF CustomerProfile(tx) = "High"
        THEN <<[kind |-> "profile", text |-> "Customer has high risk profile"]>>
        ELSE IF CustomerProfile(tx) = "Medium"
        THEN <<[kind |-> "profile", text |-> "Customer has medium risk profile"]>>
        ELSE <<>>)
    \o <<[kind |-> "pattern", text |-> PatternPhrases(risk_score)[d.pattern]]>>
    \o (IF tx.merchantInfo
        THEN <<[kind |-> "merchant",
                text |-> IF risk_score > 60 THEN "Unusual merchant"
                                            ELSE "Established merchant"]>>
        ELSE <<>>)
    \o (IF risk_score > 70
        THEN <<[kind |-> "aml", text |-> AmlPhrases[d.aml]]>>
        ELSE <<>>)

\* reasoning_parts: the sentences without their interpolated values
Reasoning(tx, risk_score) ==
    <<IF risk_score > 60
      THEN "is significantly larger than typical for this transaction type."
      ELSE "is within expected parameters.">>
    \o <<CASE CountryTier(tx.country) = "High" ->
                "is classified as a high-risk jurisdiction with elevated financial crime concerns."
           [] CountryTier(tx.country) = "Medium" ->
                "has moderate financial crime risk factors."
           [] OTHER -> "is a lower-risk jurisdiction.">>
    \o (IF risk_score > 60
        THEN <<"The transaction exhibits unusual characteristics that deviate from the customer's established patterns.">>
               \o (IF risk_score > 80
                   THEN <<"Multiple red flags indicate potential layering or structuring activity that warrants immediate investigation.">>
                   ELSE <<>>)
        ELSE <<"The transaction is consistent with the customer's historical activity patterns.">>)
    \o (IF CustomerProfile(tx) = "High"
        THEN <<"The customer's existing high-risk profile elevates the overall transaction risk.">>
        ELSE <<>>)

\* the bounds of the extreme-score confidence range are applied from 80 up
\* and from 20 down
ConfidenceRangeInclusive(risk_score) ==
    IF risk_score >= 80 \/ risk_score <= 20 THEN <<85, 98>> ELSE <<70, 90>>

\* the (low, high) arguments of the random.randint that draws the confidence
ConfidenceRange(risk_score) ==
    IF risk_score > 80 \/ risk_score < 20 THEN <<85, 98>> ELSE <<70, 90>>

\* The analysis generate_ai_analysis(tx) returns when its draws come out as d
generate_ai_analysis(tx, d) ==
    LET risk_score == Clamp(BaseScore(d))
    IN  [transactionId     |-> tx.id,
         riskScore         |-> risk_score,
         riskAssessment    |-> RiskAssessment(tx, risk_score),
         recommendedAction |-> RecommendedAction(risk_score),
         confidence        |-> d.confidence,
         factors           |-> Factors(tx, risk_score, d),
         reasoning         |-> Reasoning(tx, risk_score)]

\* The outcomes sampled for the draws made after the score: the pattern
\* phrase and the AML phrase of random.choice (an index; 1 when the code
\* makes no such draw) and the confidence of random.randint, all least or
\* all greatest.
TailDraws(risk_score) ==
    {[pattern    |-> 1,
      aml        |-> 1,
      confidence |-> ConfidenceRange(risk_score)[1]],
     [pattern    |-> Len(PatternPhrases(risk_score)),
      aml        |-> IF risk_score > 70 THEN Len(AmlPhrases) ELSE 1,
      confidence |-> ConfidenceRange(risk_score)[2]]}

(***************************************************************************)
(* Specification of the scorer: a transaction is given, then analysed      *)
(***************************************************************************)
\* a transaction given to generate_ai_analysis
AnalysisInput(country, risk, type, amount, profile, merchant) ==
    [id |-> "TXN-" \o Upper("1f0e3dad"), amount |-> amount,
     currency |-> DEFAULT_CURRENCY, country |-> country, transactionType |-> type,
     riskIndicator |-> risk, time |-> NoTime,
     timestamp |-> isoformat(NoTime) \o <<Ord("Z")>>, status |-> "flagged",
     riskProfile |-> profile, merchantInfo |-> merchant]

\* type, amount in cents, customer profile, merchant: one amount at or next
\* to a threshold for every type (T, T + 0.01, 5T, 5T + 0.01)
AnalysisShapes ==
    {<<"transfer", 5000000, "Low", FALSE>>,
     <<"deposit", 2500001, "Medium", FALSE>>,
     <<"withdrawal", 7500000, "High", FALSE>>,
     <<"payment", 2500001, "Low", TRUE>>}

\* the transactions given to generate_ai_analysis: every shape in a country
\* of every tier at both risk levels, the 1,500,000 transfer to North Korea
\* for every customer profile (and without customerInfo), and a transaction
\* of a type outside the table
AnalysisInputs ==
    {AnalysisInput(c, r, sh[1], sh[2], sh[3], sh[4]) :
        c \in {"USA", "Mexico", "North Korea"}, r \in Range(RISK_INDICATORS),
        sh \in AnalysisShapes}
    \cup {AnalysisInput("North Korea", "High", "transfer", 150000000, p, TRUE) :
            p \in Range(RISK_PROFILES) \cup {None}}
    \cup {AnalysisInput("USA", "Normal", "wire", 100000, "Low", FALSE)}

AnalysisCall ==
    [op |-> "generate_ai_analysis", country |-> None, risk_level |-> None,
     transaction_type |-> None, count |-> 0, pct |-> <<0, 1>>, now |-> NoTime]

InitAnalysis ==
    /\ call = AnalysisCall
    /\ outcome = "pending"
    /\ transaction \in AnalysisInputs
    /\ transactions = <<>>
    /\ analysis = NoAnalysis
    /\ rnd = NoDraws
    /\ base_score = 0
    /\ transaction_store = EmptyStore
    /\ analysis_store = EmptyStore
    /\ response = NoResponse

\* generate_ai_analysis(transaction) returns
GenerateAiAnalysis ==
    /\ call.op = "generate_ai_analysis"
    /\ outcome = "pending"
    /\ transaction.transactionType \in DOMAIN amount_thresholds
    /\ \E r \in RiskIndicatorDraws(transaction), c \in CountryDraws(transaction),
          a \in AmountDraws(transaction), p \in ProfileDraws(transaction) :
         LET s == [risk |-> r, country |-> c, amount |-> a, profile |-> p]
         IN  /\ base_score' = BaseScore(s)
             /\ \E t \in TailDraws(Clamp(BaseScore(s))) :
                  analysis' = generate_ai_analysis(transaction,
                                  [risk |-> r, country |-> c, amount |-> a,
                                   profile |-> p, pattern |-> t.pattern,
                                   aml |-> t.aml, confidence |-> t.confidence])
    /\ outcome' = "returned"
    /\ UNCHANGED <<call, transaction, transactions, rnd>>
    /\ UNCHANGED apiVars

\* amount_thresholds[transaction_type] raises KeyError for a type outside
\* the table
GenerateAiAnalysisRaises ==
    /\ call.op = "generate_ai_analysis"
    /\ outcome = "pending"
    /\ transaction.transactionType \notin DOMAIN amount_thresholds
    /\ outcome' = "raised"
    /\ UNCHANGED <<call, transaction, transactions, analysis, rnd, base_score>>
    /\ UNCHANGED apiVars

NextAnalysis == GenerateAiAnalysis \/ GenerateAiAnalysisRaises

SpecAnalysis == InitAnalysis /\ [][NextAnalysis]_vars

(***************************************************************************)
(* backend/main.py: the request handlers over transaction_store and        *)
(* analysis_store.  Every handler is an `async def` that never suspends    *)
(* (its only await runs another handler inline), so the event loop runs    *)
(* each request to its response before it starts the next: one action is   *)
(* one request.                                                            *)
(***************************************************************************)
\* store[key] = value on a dict
Put(store, key, value) ==
    [k \in DOMAIN store \cup {key} |-> IF k = key THEN value ELSE store[k]]

\* for transaction in transactions: transaction_store[transaction['id']] = transaction
RECURSIVE StoreAll(_, _)
StoreAll(store, list) ==
    IF list = <<>> THEN store
    ELSE StoreAll(Put(store, Head(list).id, Head(list)), Tail(list))

\* [t for t in transactions if keep(t)], keep given as the set of kept elements
RECURSIVE Filter(_, _)
Filter(list, kept) ==
    IF list = <<>> THEN <<>>
    ELSE (IF Head(list) \in kept THEN <<Head(list)>> ELSE <<>>)
           \o Filter(Tail(list), kept)

\* needle.lower() in id.lower(), tabulated for the needles the requests carry
Contains(needle, id) ==
    CASE needle = "1f0e" -> id = "TXN-1F0E3DAD"
      [] needle = "TXN-" -> id \in {"TXN-1F0E3DAD", "TXN-9B2C44E0"}
      [] OTHER           -> FALSE

\* the three filters of get_flagged_transactions, applied in turn
ApplyFilters(list, risk_indicator, status, transaction_id) ==
    LET all   == Range(list)
        byRisk == IF ~Falsy(risk_indicator) /\ risk_indicator # "All"
                  THEN Filter(list, {t \in all : t.riskIndicator = risk_indicator})
                  ELSE list
        byStatus == IF ~Falsy(status) /\ status # "All"
                    THEN Filter(byRisk, {t \in all : t.status = status})
                    ELSE byRisk
    IN  IF ~Falsy(transaction_id)
        THEN Filter(byStatus, {t \in all : Contains(transaction_id, t.id)})
        ELSE byStatus

\* the identifier is kept as generated
WithIdKept(tx, transaction_id) == tx

\* transaction['id'] = transaction_id
WithId(tx, transaction_id) == [tx EXCEPT !.id = transaction_id]

\* the cache is never consulted
CachedNever(astore, transaction_id) == FALSE

\* if transaction_id in analysis_store
Cached(astore, transaction_id) == transaction_id \in DOMAIN astore

\* the counts are read after the stores were cleared
ClearedCountsAfterClear(tstore, astore) == [transactions |-> 0, analyses |-> 0]

\* len(transaction_store) and len(analysis_store)
ClearedCounts(tstore, astore) ==
    [transactions |-> Cardinality(DOMAIN tstore),
     analyses     |-> Cardinality(DOMAIN astore)]

\* high_risk_percentage: the default 0.3 of generate_transactions and the
\* 0.4 get_flagged_transactions passes
DefaultPercentage == <<3, 10>>
FlaggedPercentage == <<2, 5>>

\* the reading of the clock and the draws of one generate_transaction call
\* made while a request is served
ServedSamples ==
    [now : {r \in ClockReadings : r.us # 0}, d : BatchDraws]

\* the readings and draws of the n generate_transaction calls of a batch
\* generated while a request is served: the first call draws one sample and
\* the later calls another, or the same
ServedBatches(n) ==
    {[i \in 1..n |-> IF i = 1 THEN a ELSE b] : a, b \in ServedSamples}

\* the transaction generate_transactions(count=1)[0] can return
OneGenerated ==
    {generate_transactions(1, DefaultPercentage, s)[1] :
        s \in ServedBatches(NumCalls(1, DefaultPercentage))}

Least(S) == CHOOSE x \in S : \A y \in S : x <= y
Greatest(S) == CHOOSE x \in S : \A y \in S : x >= y

\* the draws of generate_ai_analysis sampled while a request is served: every
\* contribution the least of its range, or every contribution the greatest
ServedAnalysisDraws(tx) ==
    LET lo == [risk |-> Least(RiskIndicatorDraws(tx)), country |-> Least(CountryDraws(tx)),
               amount |-> Least(AmountDraws(tx)), profile |-> Least(ProfileDraws(tx))]
        hi == [risk |-> Greatest(RiskIndicatorDraws(tx)),
               country |-> Greatest(CountryDraws(tx)),
               amount |-> Greatest(AmountDraws(tx)),
               profile |-> Greatest(ProfileDraws(tx))]
        tail(s) == CHOOSE t \in TailDraws(Clamp(BaseScore(s))) : t.pattern = 1
    IN  {[risk |-> s.risk, country |-> s.country, amount |-> s.amount,
          profile |-> s.profile, pattern |-> tail(s).pattern, aml |-> tail(s).aml,
          confidence |-> tail(s).confidence] : s \in {lo, hi}}

\* the requests the model sends
RequestIds == {"TXN-1F0E3DAD", "TXN-9B2C44E0"}

RequestCounts == {0, 1, MaxCount}

\* risk_indicator, status and transaction_id of a get_flagged_transactions
\* request
FlaggedFilters ==
    {[risk_indicator |-> f[1], status |-> f[2], transaction_id |-> f[3]] :
        f \in {<<None, None, None>>, <<"High", "All", None>>,
               <<"All", "dismissed", "1f0e">>}}

\* status_update.get("status"): a valid status, an invalid one, and None for
\* a body without the key
StatusUpdates == {"reviewed", "approved", None}

ServeCall ==
    [op |-> "serve", country |-> None, risk_level |-> None,
     transaction_type |-> None, count |-> 0, pct |-> <<0, 1>>, now |-> NoTime]

\* the server has started: both stores are empty
InitApi ==
    /\ call = ServeCall
    /\ outcome = "serving"
    /\ transaction = NoTransaction
    /\ transactions = <<>>
    /\ analysis = NoAnalysis
    /\ rnd = NoDraws
    /\ base_score = 0
    /\ transaction_store = EmptyStore
    /\ analysis_store = EmptyStore
    /\ response = NoResponse

\* GET /api/transactions/flagged
GetFlaggedTransactions ==
    /\ call.op = "serve"
    /\ \E count \in RequestCounts \ {0} :
       \E s \in ServedBatches(NumCalls(count, FlaggedPercentage)) :
         LET generated == generate_transactions(count, FlaggedPercentage, s)
         IN  /\ transaction_store' = StoreAll(transaction_store, generated)
             /\ \E q \in FlaggedFilters :
                  response' = [NoResponse EXCEPT
                                 !.handler = "get_flagged_transactions",
                                 !.status_code = 200,
                                 !.count = count,
                                 !.generated = generated,
                                 !.transactions =
                                     ApplyFilters(generated, q.risk_indicator,
                                                  q.status, q.transaction_id)]
    /\ UNCHANGED analysis_store
    /\ UNCHANGED libVars

\* GET /api/transactions/{transaction_id}: the stored transaction, else a
\* generated one under the requested identifier; nothing in the try block
\* raises, so the 404 of the except clause is never sent
GetTransactionById ==
    /\ call.op = "serve"
    /\ \E transaction_id \in RequestIds :
         IF transaction_id \in DOMAIN transaction_store
         THEN /\ response' = [NoResponse EXCEPT
                                !.handler = "get_transaction_by_id",
                                !.status_code = 200,
                                !.transaction_id = transaction_id,
                                !.transaction = transaction_store[transaction_id]]
              /\ UNCHANGED transaction_store
         ELSE \E g \in OneGenerated :
                LET tx == WithId(g, transaction_id)
                IN  /\ transaction_store' = Put(transaction_store, transaction_id, tx)
                    /\ response' = [NoResponse EXCEPT
                                      !.handler = "get_transaction_by_id",
                                      !.status_code = 200,
                                      !.transaction_id = transaction_id,
                                      !.transaction = tx]
    /\ UNCHANGED analysis_store
    /\ UNCHANGED libVars

\* GET /api/analysis/{transaction_id}: the cached analysis, else the analysis
\* of the stored transaction (fetched through get_transaction_by_id when it
\* is not stored); an exception of generate_ai_analysis is answered with 500
GetAiAnalysisById ==
    /\ call.op = "serve"
    /\ \E transaction_id \in RequestIds :
         IF Cached(analysis_store, transaction_id)
         THEN /\ response' = [NoResponse EXCEPT
                                !.handler = "get_ai_analysis_by_id",
                                !.status_code = 200,
                                !.transaction_id = transaction_id,
                                !.analysis = analysis_store[transaction_id]]
              /\ UNCHANGED <<transaction_store, analysis_store>>
         ELSE \E tx \in (IF transaction_id \in DOMAIN transaction_store
                         THEN {transaction_store[transaction_id]}
                         ELSE {WithId(g, transaction_id) : g \in OneGenerated}) :
                /\ transaction_store' =
                       IF transaction_id \in DOMAIN transaction_store
                       THEN transaction_store
                       ELSE Put(transaction_store, transaction_id, tx)
                /\ IF tx.transactionType \in DOMAIN amount_thresholds
                   THEN \E d \in ServedAnalysisDraws(tx) :
                          LET result == generate_ai_analysis(tx, d)
                          IN  /\ analysis_store' =
                                     Put(analysis_store, transaction_id, result)
                              /\ response' = [NoResponse EXCEPT
                                                !.handler = "get_ai_analysis_by_id",
                                                !.status_code = 200,
                                                !.transaction_id = transaction_id,
                                                !.analysis = result]
                   ELSE /\ response' = [NoResponse EXCEPT
                                          !.handler = "get_ai_analysis_by_id",
                                          !.status_code = 500,
                                          !.transaction_id = transaction_id]
                        /\ UNCHANGED analysis_store
    /\ UNCHANGED libVars

\* PATCH /api/transactions/{transaction_id}/status: the HTTPException(400)
\* raised inside the try block is an Exception, so the except clause catches
\* it and raises HTTPException(500); a valid status is logged and answered,
\* the stores are not written
UpdateTransactionStatus ==
    /\ call.op = "serve"
    /\ \E transaction_id \in RequestIds, new_status \in StatusUpdates :
         LET raised == new_status \notin Range(STATUS_OPTIONS)
         IN  response' = [NoResponse EXCEPT
                            !.handler = "update_transaction_status",
                            !.status_code = IF raised THEN 500 ELSE 200,
                            !.transaction_id = transaction_id,
                            !.new_status = new_status]
    /\ UNCHANGED <<transaction_store, analysis_store>>
    /\ UNCHANGED libVars

\* DELETE /api/cache/clear
ClearCache ==
    /\ call.op = "serve"
    /\ response' = [NoResponse EXCEPT
                      !.handler = "clear_cache",
                      !.status_code = 200,
                      !.cleared = ClearedCounts(transaction_store, analysis_store)]
    /\ transaction_store' = EmptyStore
    /\ analysis_store' = EmptyStore
    /\ UNCHANGED libVars

\* POST /api/generate/synthetic-data: Query(1, ge=1, le=100) answers a count
\* outside 1..100 with 422 before the handler runs; with include_analysis the
\* handler passes the whole list to generate_ai_analysis, whose subscript
\* transaction["riskIndicator"] raises TypeError on a list, and the except
\* clause answers 500
GenerateSyntheticData ==
    /\ call.op = "serve"
    /\ \E count \in RequestCounts, include_analysis \in BOOLEAN :
         IF count < 1 \/ count > 100
         THEN response' = [NoResponse EXCEPT
                             !.handler = "generate_synthetic_data",
                             !.status_code = 422,
                             !.count = count,
                             !.include_analysis = include_analysis]
         ELSE IF include_analysis
         THEN response' = [NoResponse EXCEPT
                             !.handler = "generate_synthetic_data",
                             !.status_code = 500,
                             !.count = count,
                             !.include_analysis = include_analysis]
         ELSE \E s \in ServedBatches(NumCalls(count, DefaultPercentage)) :
                response' = [NoResponse EXCEPT
                               !.handler = "generate_synthetic_data",
                               !.status_code = 200,
                               !.count = count,
                               !.include_analysis = include_analysis,
                               !.transactions =
                                   generate_transactions(count, DefaultPercentage, s)]
    /\ UNCHANGED <<transaction_store, analysis_store>>
    /\ UNCHANGED libVars

NextApi ==
    \/ GetFlaggedTransactions
    \/ GetTransactionById
    \/ GetAiAnalysisById
    \/ UpdateTransactionStatus
    \/ ClearCache
    \/ GenerateSyntheticData

SpecApi == InitApi /\ [][NextApi]_vars

(***************************************************************************)
(* Properties of the scorer, checked under SpecAnalysis                    *)
(***************************************************************************)
Analysed == call.op = "generate_ai_analysis" /\ outcome = "returned"

\* C1: generate_ai_analysis returns an integer riskScore with
\* 5 <= riskScore <= 95, for every transaction and every outcome of the draws.
C1_RiskScoreWithinBounds == Analysed => analysis.riskScore \in 5..95

\* the raw sum exceeded 95 and the score was capped
C1_Witness ==
    /\ Analysed
    /\ analysis.riskScore = 95
    /\ transaction.riskIndicator = "High"
    /\ Len(analysis.factors) = 6

\* the band table of the claim
BandAction(score) ==
    CASE score >= 60 -> "Escalate"
      [] score >= 20 /\ score < 60 -> "Monitor"
      [] score < 20 -> "Dismiss"

BandAssessment(score) ==
    CASE score >= 80 -> "Very high risk - "
      [] score >= 60 /\ score < 80 -> "High risk "
      [] score >= 40 /\ score < 60 -> "Medium risk "
      [] score >= 20 /\ score < 40 -> "Low risk transaction within normal parameters"
      [] score < 20 -> "Very low risk "

\* C2: recommendedAction and riskAssessment are those of the band of the
\* final clamped riskScore (>= 80 Very high/Escalate, 60..79 High/Escalate,
\* 40..59 Medium ... requiring review/Monitor, 20..39 Low ... within normal
\* parameters/Monitor, below 20 Very low/Dismiss), so the action is
\* monotonic in the score.
C2_BandMatchesScore ==
    Analysed =>
      /\ analysis.recommendedAction = BandAction(analysis.riskScore)
      /\ Head(analysis.riskAssessment) = BandAssessment(analysis.riskScore)
      /\ (analysis.riskScore \in 40..59) =>
            analysis.riskAssessment[Len(analysis.riskAssessment)] = " requiring review"

\* a score on the lower edge of the Escalate band
C2_Witness ==
    /\ Analysed
    /\ analysis.riskScore = 60
    /\ analysis.recommendedAction = "Escalate"

IsNorthKoreaTransfer(tx) ==
    /\ tx.transactionType = "transfer"
    /\ tx.riskIndicator = "High"
    /\ tx.amount = 150000000
    /\ tx.country = "North Korea"

\* C3: a transfer with riskIndicator High, amount 1,500,000 and country
\* North Korea scores in the Escalate band (riskScore >= 60, Escalate) for
\* every customer riskProfile and every outcome of the draws.
C3_NorthKoreaTransferEscalates ==
    (Analysed /\ IsNorthKoreaTransfer(transaction)) =>
      /\ analysis.riskScore >= 60
      /\ analysis.recommendedAction = "Escalate"

\* the least score such a transfer can get: 50 + 20 + 10 + 15 - 15
C3_Witness ==
    /\ Analysed
    /\ IsNorthKoreaTransfer(transaction)
    /\ transaction.riskProfile = "Low"
    /\ analysis.riskScore = 80

FactorRank(kind) ==
    CASE kind = "amount" -> 1
      [] kind = "country" -> 2
      [] kind = "profile" -> 3
      [] kind = "pattern" -> 4
      [] kind = "merchant" -> 5
      [] kind = "aml" -> 6

\* C10: the factors list is non-empty, its first entry is the amount factor
\* (Very large / Large / Standard), the emitted factors appear in the order
\* amount, country, customer profile, pattern, merchant, AML, and the amount
\* and pattern factors are always present.
C10_FactorsOrdered ==
    Analysed =>
      LET f == analysis.factors
      IN  /\ Len(f) >= 1
          /\ f[1].kind = "amount"
          /\ f[1].text \in {"Very large", "Large", "Standard"}
          /\ \A i \in 1..(Len(f) - 1) : FactorRank(f[i].kind) < FactorRank(f[i + 1].kind)
          /\ \E i \in 1..Len(f) : f[i].kind = "pattern"

\* the shortest list: no country, profile, merchant or AML factor
C10_Witness ==
    /\ Analysed
    /\ Len(analysis.factors) = 2
    /\ analysis.factors[2].kind = "pattern"

\* C23: a transaction with riskIndicator High is never dismissed: for every
\* country, type, amount, riskProfile and every outcome of the draws,
\* generate_ai_analysis returns riskScore >= 40 and a recommendedAction of
\* Monitor or Escalate, never Dismiss.
C23_HighIsNeverDismissed ==
    (Analysed /\ transaction.riskIndicator = "High") =>
      /\ analysis.riskScore >= 40
      /\ analysis.recommendedAction \in {"Monitor", "Escalate"}

\* the least score of a High transaction: 50 + 20 - 10 + 0 - 15
C23_Witness ==
    /\ Analysed
    /\ transaction.riskIndicator = "High"
    /\ analysis.riskScore = 45
    /\ analysis.recommendedAction = "Monitor"

\* C24: the lower clamp of the score is never active: for every transaction
\* and every outcome of the draws the unclamped sum (50 plus the four
\* contributions) is at least 5, so riskScore differs from the unclamped sum
\* only when the sum exceeds 95.
C24_LowerClampNeverActive ==
    Analysed =>
      /\ base_score >= 5
      /\ analysis.riskScore # base_score => base_score > 95

\* the least sum, 50 - 20 - 10 + 0 - 15, is the returned score
C24_Witness ==
    /\ Analysed
    /\ base_score = 5
    /\ analysis.riskScore = 5

\* the texts of the pattern factors of an analysis
PatternTexts(a) ==
    {a.factors[i].text : i \in {j \in 1..Len(a.factors) : a.factors[j].kind = "pattern"}}

\* the pattern factor is a suspicious phrase and the reasoning has the
\* "significantly larger than typical" and "unusual characteristics"
\* sentences, not the normal ones
SuspiciousNarrative(a) ==
    /\ PatternTexts(a) # {}
    /\ PatternTexts(a) \subseteq Range(SuspiciousPatterns)
    /\ PatternTexts(a) \cap Range(NormalPatterns) = {}
    /\ "is significantly larger than typical for this transaction type."
         \in Range(a.reasoning)
    /\ "The transaction exhibits unusual characteristics that deviate from the customer's established patterns."
         \in Range(a.reasoning)
    /\ "is within expected parameters." \notin Range(a.reasoning)

\* the pattern factor is a normal phrase and the reasoning has the "within
\* expected parameters" sentence
NormalNarrative(a) ==
    /\ PatternTexts(a) # {}
    /\ PatternTexts(a) \subseteq Range(NormalPatterns)
    /\ "is within expected parameters." \in Range(a.reasoning)
    /\ "is significantly larger than typical for this transaction type."
         \notin Range(a.reasoning)

\* C25 as stated: whenever generate_ai_analysis returns recommendedAction
\* Escalate, the pattern factor is drawn from the suspicious phrases and the
\* reasoning uses the "significantly larger than typical" and "unusual
\* characteristics" sentences, never the normal pattern phrases or the
\* "within expected parameters" sentence.
C25_EscalatedNarrativeIsSuspicious ==
    (Analysed /\ analysis.recommendedAction = "Escalate") =>
      SuspiciousNarrative(analysis)

\* C25 as amended: an analysis with recommendedAction Escalate and a
\* riskScore above 60 has the suspicious narrative; at riskScore 60 the
\* action is Escalate too, with the normal narrative.
C25_EscalatedAbove60NarrativeIsSuspicious ==
    (Analysed /\ analysis.recommendedAction = "Escalate") =>
      /\ analysis.riskScore >= 60
      /\ analysis.riskScore > 60 => SuspiciousNarrative(analysis)
      /\ analysis.riskScore = 60 => NormalNarrative(analysis)

\* the least score with the suspicious narrative, escalated
C25_Witness ==
    /\ Analysed
    /\ analysis.recommendedAction = "Escalate"
    /\ analysis.riskScore = 61
    /\ SuspiciousNarrative(analysis)

(***************************************************************************)
(* Properties of the generator, checked under Spec                         *)
(***************************************************************************)
Generated == call.op = "generate_transaction" /\ outcome = "returned"

BatchReturned == call.op = "generate_transactions" /\ outcome = "returned"

NumWithRisk(list, risk) == Cardinality({i \in 1..Len(list) : list[i].riskIndicator = risk})

\* C4: generate_transactions(count, high_risk_percentage) returns exactly
\* count transactions, floor(count * high_risk_percentage) of them High and
\* the remaining ones Normal, for any call.
C4_BatchHasCountElements ==
    BatchReturned =>
      LET highRiskCount == (call.count * call.pct[1]) \div call.pct[2]
      IN  /\ Len(transactions) = call.count
          /\ NumWithRisk(transactions, "High") = highRiskCount
          /\ NumWithRisk(transactions, "Normal") = call.count - highRiskCount

\* C5: the list generate_transactions returns is sorted by timestamp
\* descending: no element's transaction time is before that of the next.
C5_SortedByTimeDescending ==
    BatchReturned =>
      \A i \in 1..(Len(transactions) - 1) :
         NotBefore(transactions[i].time, transactions[i + 1].time)

OutOfRange(c) ==
    \/ c.count <= 0
    \/ c.pct[1] < 0
    \/ c.pct[1] > c.pct[2]

\* the arguments clamped into count >= 1 and 0 <= high_risk_percentage <= 1
ClampedCount(c) == IF c.count <= 0 THEN 1 ELSE c.count

ClampedPct(c) ==
    IF c.pct[1] < 0 THEN <<0, 1>> ELSE IF c.pct[1] > c.pct[2] THEN <<1, 1>> ELSE c.pct

\* C6: generate_transactions with high_risk_percentage outside [0,1] or
\* count <= 0 is rejected with an error or has its arguments clamped into
\* range; it never produces a batch from the out-of-range values.
C6_OutOfRangeRejectedOrClamped ==
    (call.op = "generate_transactions" /\ outcome # "pending" /\ OutOfRange(call)) =>
      \/ outcome = "raised"
      \/ /\ Len(transactions) = ClampedCount(call)
         /\ NumWithRisk(transactions, "High")
              = (ClampedCount(call) * ClampedPct(call)[1]) \div ClampedPct(call)[2]

InvalidArguments(c) ==
    \/ c.risk_level \notin Range(RISK_INDICATORS) \cup {None}
    \/ c.transaction_type \notin Range(TRANSACTION_TYPES) \cup {None}
    \/ c.country \notin Range(LOW_RISK_COUNTRIES) \cup Range(MEDIUM_RISK_COUNTRIES)
                          \cup Range(HIGH_RISK_COUNTRIES) \cup {None}

\* C7: generate_transaction with an explicit risk_level, transaction_type or
\* country outside the documented values is rejected with an error; it never
\* returns a transaction.
C7_InvalidArgumentsRejected ==
    (call.op = "generate_transaction" /\ outcome # "pending" /\ InvalidArguments(call)) =>
      outcome = "raised"

\* the ranges the claim documents, in SGD
DocumentedRange(type, risk) ==
    CASE type = "transfer"   /\ risk = "High"   -> <<50000, 2000000>>
      [] type = "transfer"   /\ risk = "Normal" -> <<500, 50000>>
      [] type = "deposit"    /\ risk = "High"   -> <<25000, 800000>>
      [] type = "deposit"    /\ risk = "Normal" -> <<200, 25000>>
      [] type = "withdrawal" /\ risk = "High"   -> <<15000, 200000>>
      [] type = "withdrawal" /\ risk = "Normal" -> <<100, 15000>>
      [] type = "payment"    /\ risk = "High"   -> <<5000, 150000>>
      [] type = "payment"    /\ risk = "Normal" -> <<50, 5000>>

AmountDocumented(tx) ==
    (tx.transactionType \in Range(TRANSACTION_TYPES)
       /\ tx.riskIndicator \in Range(RISK_INDICATORS)) =>
      /\ tx.amount >= 100 * DocumentedRange(tx.transactionType, tx.riskIndicator)[1]
      /\ tx.amount <= 100 * DocumentedRange(tx.transactionType, tx.riskIndicator)[2]

\* C8: every transaction generate_transaction returns has an amount inside
\* the range documented for its (transactionType, riskIndicator).
C8_AmountInDocumentedRange ==
    /\ Generated => AmountDocumented(transaction)
    /\ BatchReturned => \A i \in 1..Len(transactions) : AmountDocumented(transactions[i])

\* a High withdrawal at the top of its range
C8_Witness ==
    /\ Generated
    /\ transaction.transactionType = "withdrawal"
    /\ transaction.riskIndicator = "High"
    /\ transaction.amount = 20000000

\* C9: a transaction carries merchantInfo if and only if it is a payment, or
\* a transfer whose 0.3 coin succeeded; every payment has merchantInfo and no
\* deposit or withdrawal has it.
C9_MerchantInfoPresence ==
    /\ Generated =>
         (transaction.merchantInfo <=>
            \/ transaction.transactionType = "payment"
            \/ transaction.transactionType = "transfer" /\ rnd.coin)
    /\ BatchReturned =>
         \A i \in 1..Len(transactions) :
            /\ transactions[i].transactionType = "payment" => transactions[i].merchantInfo
            /\ transactions[i].transactionType \in {"deposit", "withdrawal"}
                 => ~transactions[i].merchantInfo

\* a transfer whose coin failed has no merchantInfo
C9_Witness ==
    /\ Generated
    /\ transaction.transactionType = "transfer"
    /\ ~rnd.coin
    /\ ~transaction.merchantInfo

\* seconds from instant b to instant a (microseconds apart from that)
SecondsBetween(a, b) == (a.day - b.day) * 86400 + (a.sod - b.sod)

\* C14: the timestamp of every transaction generate_transaction returns lies
\* within the last 30 days of its generation time: generation time minus
\* timestamp is at least 0 and at most 30 days.
C14_TimestampWithinThirtyDays ==
    Generated =>
      /\ SecondsBetween(call.now, transaction.time) >= 0
      /\ SecondsBetween(call.now, transaction.time) <= 30 * 86400

\* C15: transaction ids are unique: no two transactions generate_transaction
\* produces (here: within one batch) have the same id.
C15_IdsUniqueInBatch ==
    BatchReturned =>
      \A i, j \in 1..Len(transactions) :
         i # j => transactions[i].id # transactions[j].id

\* C16: confidence is an integer in [85,98] when riskScore > 80 or
\* riskScore < 20, and an integer in [70,90] otherwise.
C16_ConfidenceRange ==
    Analysed =>
      IF analysis.riskScore > 80 \/ analysis.riskScore < 20
      THEN analysis.confidence \in 85..98
      ELSE analysis.confidence \in 70..90

\* a score on the edge of the extreme range keeps the ordinary confidence
C16_Witness ==
    /\ Analysed
    /\ analysis.riskScore = 80
    /\ analysis.confidence = 70

\* amount > 5 * T(type) and a country of the high-risk tier
IsExtreme(tx) ==
    /\ tx.transactionType \in DOMAIN amount_thresholds
    /\ AmountClass(tx) = "Very large"
    /\ CountryTier(tx.country) = "High"

\* generate_ai_analysis can return a score below 60 with Monitor or Dismiss
CanBeMonitoredOrDismissed ==
    ENABLED (/\ GenerateAiAnalysis
             /\ analysis'.riskScore < 60
             /\ analysis'.recommendedAction \in {"Monitor", "Dismiss"})

\* C18: the scoring formula can put an objectively extreme transaction
\* (amount > 5*T(type), high-risk-tier country) into the Monitor/Dismiss band:
\* for such a transaction there is an outcome of the draws with riskScore
\* below 60 and action Monitor or Dismiss (exactly when its riskIndicator is
\* Normal and the customer profile is not High).
C18_ExtremeCanScoreBelowEscalate ==
    (call.op = "generate_ai_analysis" /\ outcome = "pending" /\ IsExtreme(transaction)) =>
      (CanBeMonitoredOrDismissed <=>
         (transaction.riskIndicator # "High" /\ CustomerProfile(transaction) # "High"))

\* a very large payment to North Korea that is only monitored
C18_Witness ==
    /\ Analysed
    /\ IsExtreme(transaction)
    /\ analysis.riskScore < 60
    /\ analysis.recommendedAction = "Monitor"

\* C26: generation ranges and scoring thresholds do not drift: for every
\* transactionType, a transaction produced by generate_transaction with
\* riskLevel Normal never has amount > T(type) (T = 50000, 25000, 15000,
\* 5000), so its analysis never receives an amount bonus and its amount
\* factor is always labelled "Standard".
C26_NormalAmountIsStandard ==
    (/\ Generated
     /\ transaction.riskIndicator = "Normal"
     /\ transaction.transactionType \in Range(TRANSACTION_TYPES)) =>
      /\ transaction.amount <= amount_thresholds[transaction.transactionType] * 100
      /\ AmountDraws(transaction) = {0}
      /\ \A score \in 5..95 :
            Head(Factors(transaction, score, [pattern |-> 1, aml |-> 1])) =
              [kind |-> "amount", text |-> "Standard"]

\* a normal payment of exactly SGD 5,000.00, the threshold of its type
C26_Witness ==
    /\ Generated
    /\ transaction.riskIndicator = "Normal"
    /\ transaction.transactionType = "payment"
    /\ transaction.amount = amount_thresholds["payment"] * 100
    /\ AmountClass(transaction) = "Standard"

(***************************************************************************)
(* Properties of the request handlers, checked under SpecApi               *)
(***************************************************************************)
\* the last request was answered by this handler
AnsweredBy(handler) == call.op = "serve" /\ response.handler = handler

\* C11: clear_cache leaves both transaction_store and analysis_store empty
\* and returns, as cleared.transactions and cleared.analyses, the number of
\* entries each store held immediately before the call, after any sequence
\* of preceding operations.
C11_ClearCacheEmptiesAndCounts ==
    [][response'.handler = "clear_cache" =>
         /\ transaction_store' = EmptyStore
         /\ analysis_store' = EmptyStore
         /\ response'.status_code = 200
         /\ response'.cleared.transactions = Cardinality(DOMAIN transaction_store)
         /\ response'.cleared.analyses = Cardinality(DOMAIN analysis_store)]_vars

\* a clear_cache that removed two transactions and their two analyses
C11_Witness ==
    /\ AnsweredBy("clear_cache")
    /\ response.cleared = [transactions |-> 2, analyses |-> 2]
    /\ transaction_store = EmptyStore
    /\ analysis_store = EmptyStore

\* C12: looking up a transaction id that is not present in transaction_store
\* through get_transaction_by_id yields a NotFound (404) outcome and leaves
\* transaction_store unchanged.
C12_AbsentLookupIsNotFound ==
    [][(/\ response'.handler = "get_transaction_by_id"
        /\ response'.transaction_id \notin DOMAIN transaction_store) =>
         /\ response'.status_code = 404
         /\ transaction_store' = transaction_store]_vars

\* C13: under any interleaving of the request handlers the store is never
\* corrupted: each key of analysis_store is also a key of transaction_store,
\* each stored transaction's id field equals its key, and each stored
\* analysis's transactionId equals its key.
C13_StoreNeverCorrupted ==
    /\ DOMAIN analysis_store \subseteq DOMAIN transaction_store
    /\ \A k \in DOMAIN transaction_store : transaction_store[k].id = k
    /\ \A k \in DOMAIN analysis_store : analysis_store[k].transactionId = k

\* both requested ids are stored and analysed, one of them through a
\* transaction get_transaction_by_id generated under the requested id (only
\* the draw with uuid 9b2c44e0 gives the status dismissed)
C13_Witness ==
    /\ DOMAIN analysis_store = RequestIds
    /\ transaction_store["TXN-1F0E3DAD"].status = "dismissed"
    /\ AnsweredBy("get_flagged_transactions")

\* C17: generate_synthetic_data with include_analysis=true returns, for the
\* generated list of count transactions, one analysis per transaction whose
\* transactionId equals that transaction's id, and does not end in an error.
C17_BatchAnalysisIsElementwise ==
    (/\ AnsweredBy("generate_synthetic_data")
     /\ response.include_analysis
     /\ response.count >= 1) =>
      /\ response.status_code = 200
      /\ Len(response.transactions) = response.count
      /\ Len(response.analyses) = response.count
      /\ \A i \in 1..response.count :
            response.analyses[i].transactionId = response.transactions[i].id

\* C19: update_transaction_status called with a status value outside
\* {flagged, reviewed, dismissed} (including a missing status) responds with
\* the 400 error, not with any other error code.
C19_InvalidStatusAnswered400 ==
    (/\ AnsweredBy("update_transaction_status")
     /\ response.new_status \notin Range(STATUS_OPTIONS)) =>
      response.status_code = 400

\* C20: after a successful call update_transaction_status(id, s) for an id
\* present in transaction_store, a subsequent get_transaction_by_id(id)
\* returns a transaction whose status is s.
C20_UpdatedStatusIsReturned ==
    [][(/\ response.handler = "update_transaction_status"
        /\ response.status_code = 200
        /\ response.transaction_id \in DOMAIN transaction_store
        /\ response'.handler = "get_transaction_by_id"
        /\ response'.transaction_id = response.transaction_id) =>
         response'.transaction.status = response.new_status]_vars

\* C21: every transaction generated by a get_flagged_transactions call
\* (whether or not it passes the filters of that call) is stored under its
\* id, and a later get_transaction_by_id for that id returns the identical
\* record, as long as no clear_cache intervenes (here: the lookup is the
\* next request).
C21_GeneratedIsRetrieved ==
    [][(/\ response.handler = "get_flagged_transactions"
        /\ response'.handler = "get_transaction_by_id") =>
         \A i \in 1..Len(response.generated) :
            response.generated[i].id = response'.transaction_id =>
              response'.transaction = response.generated[i]]_vars

\* C22: analyses are cached per transaction id: once get_ai_analysis_by_id(id)
\* has returned an analysis A (which it holds in analysis_store), every later
\* get_ai_analysis_by_id(id) returns the same A and leaves both stores
\* unchanged, until clear_cache is called; the scoring is not run again for a
\* cached id.
C22_AnalysisIsCached ==
    [][/\ (response'.handler = "get_ai_analysis_by_id" /\ response'.status_code = 200) =>
            /\ response'.transaction_id \in DOMAIN analysis_store'
            /\ analysis_store'[response'.transaction_id] = response'.analysis
       /\ response'.handler # "clear_cache" =>
            \A k \in DOMAIN analysis_store :
               /\ k \in DOMAIN analysis_store'
               /\ analysis_store'[k] = analysis_store[k]
       /\ (/\ response'.handler = "get_ai_analysis_by_id"
           /\ response'.transaction_id \in DOMAIN analysis_store) =>
            /\ response'.status_code = 200
            /\ response'.analysis = analysis_store[response'.transaction_id]
            /\ UNCHANGED <<transaction_store, analysis_store>>]_vars

\* a cached analysis is returned although the transaction stored under the
\* id has been replaced since: no outcome of the scoring of the stored
\* transaction gives it
C22_Witness ==
    /\ AnsweredBy("get_ai_analysis_by_id")
    /\ response.transaction_id \in DOMAIN analysis_store
    /\ response.analysis = analysis_store[response.transaction_id]
    /\ \A d \in ServedAnalysisDraws(transaction_store[response.transaction_id]) :
          generate_ai_analysis(transaction_store[response.transaction_id], d)
            # response.analysis

====
